---------------------------- MODULE Spec2Model ----------------------------
(***************************************************************************)
(* keel::Optional<T> (Optional.h): a presence flag m_HasValue plus inline  *)
(* storage m_Value in which at most one payload of type T is meant to      *)
(* live.  The model follows two container objects, a and b, through their  *)
(* constructors, the four assignment operators, Reset, Emplace and the     *)
(* destructor, and through the const queries.  Every member function is    *)
(* one action; the statements it                                           *)
(* executes are applied in source order to the target's record, and the    *)
(* payload constructor/destructor calls and flag writes it makes are       *)
(* logged in lastOp.ev.  A payload constructor of T may throw.             *)
(***************************************************************************)
EXTENDS Integers, Sequences, FiniteSets, TLC

\* Largest small payload value; the payload values are 0..MaxVal, 7 and 42.
MaxVal == 0

Values == (0..MaxVal) \cup {7, 42}

\* Marker for storage bytes that hold no payload value (uninitialized).
NoVal == -1

\* T(): the payload built from an empty argument list (value-initialization).
DefaultT == 0

\* The container objects of the model, and "ext": a T that lives outside
\* every container (a local variable or a temporary of the caller).
Slots == {"a", "b"}

Ext == "ext"

VARIABLES
    obj,         \* obj[c]: status, m_HasValue, m_Value, live, badDtor
    lastOp,      \* the last member function that ran, and what it did
    ctorFailed,  \* some payload constructor has thrown so far
    orig,        \* orig[c]: payload c held when a copy-construction paired it
    ret          \* what the last query call returned to the caller, if held

vars == <<obj, lastOp, ctorFailed, orig, ret>>

\* The storage before any Optional has been constructed in it.
Raw ==
    [status |-> "none", m_HasValue |-> FALSE, m_Value |-> NoVal,
     live |-> 0, badDtor |-> FALSE, ev |-> <<>>]

\* Drop the per-call event log from a working record.
Strip(r) ==
    [status |-> r.status, m_HasValue |-> r.m_HasValue, m_Value |-> r.m_Value,
     live |-> r.live, badDtor |-> r.badDtor]

\* Start working on container c: its record with an empty event log.
Work(c) ==
    [status |-> obj[c].status, m_HasValue |-> obj[c].m_HasValue,
     m_Value |-> obj[c].m_Value, live |-> obj[c].live,
     badDtor |-> obj[c].badDtor, ev |-> <<>>]

\* m_Value.Get() read as a T: the payload's value when a payload lives in
\* the storage; otherwise the read is undefined and yields any value g.
ValueGet(r, g) == IF r.live > 0 THEN r.m_Value ELSE g

\* m_Value.Get().~T(): ends the lifetime of the payload in the storage.  Run
\* on storage without a live payload it is recorded in badDtor.
DestroyT(r) ==
    [r EXCEPT !.live = IF @ > 0 THEN @ - 1 ELSE 0,
              !.badDtor = @ \/ (r.live = 0),
              !.m_Value = IF r.live > 1 THEN @ ELSE NoVal,
              !.ev = Append(@, "dtor")]

\* m_HasValue = b
SetHasValue(r, b) ==
    [r EXCEPT !.m_HasValue = b,
              !.ev = Append(@, IF b THEN "flag:=true" ELSE "flag:=false")]

\* Reset() that destroys the payload but leaves m_HasValue set.
Reset_KeepsFlag(r) ==
    IF r.m_HasValue THEN DestroyT(r) ELSE r

\* Reset() that does nothing: the old payload is never destroyed.
Reset_Missing(r) == r

\* Reset() without the m_HasValue test: it destroys unconditionally.
Reset_Unguarded(r) == SetHasValue(DestroyT(r), FALSE)

\* Reset(): if (m_HasValue) { m_Value.Get().~T(); m_HasValue = false; }
Reset(r) ==
    IF r.m_HasValue THEN SetHasValue(DestroyT(r), FALSE) ELSE r

\* new(&m_Value.Get()) T(v): constructs a payload with value v in the
\* storage, or throws (fail) and constructs nothing.
PlacementNew(r, v, fail) ==
    IF fail
    THEN [r EXCEPT !.ev = Append(@, "throw")]
    ELSE [r EXCEPT !.live = @ + 1, !.m_Value = v, !.ev = Append(@, "ctor")]

Alive(c) == obj[c].status = "alive"

\* A T the caller can name: an outside object, or the payload of a container
\* whose GetValue() passes its assertion.
IsSource(s) == s = Ext \/ (s \in Slots /\ Alive(s) /\ obj[s].m_HasValue)

\* The value read from source s: x for an outside object, else the payload.
SourceValue(s, x, g) == IF s = Ext THEN x ELSE ValueGet(obj[s], g)

\* A move that also empties the container it moves from.
MovedFrom_Emptied(o, h) ==
    [o EXCEPT !.m_HasValue = FALSE, !.live = 0, !.m_Value = NoVal]

\* A moved-from payload stays alive with an unspecified value h.
MovedFrom(o, h) == IF o.live > 0 THEN [o EXCEPT !.m_Value = h] ELSE o

\* operator=(const Optional&) / operator=(Optional&&) without the identity test.
SameObject_Unchecked(c, s) == FALSE

\* &Value == this: the source of a container assignment is the target itself.
SameObject(c, s) == s = c

\* &Value == &m_Value.Get(): the T assigned is the one in the target's storage.
SameStorage(c, s) == s = c

\* bool HasValue() const { return m_HasValue; }
HasValue(c) == obj[c].m_HasValue

\* const T& GetValue() const: the payload (asserts HasValue()).
GetValue(c) == obj[c].m_Value

\* const T& Get(const T& DefaultValue) const
Get(c, DefaultValue) == IF HasValue(c) THEN obj[c].m_Value ELSE DefaultValue

Op(name, c, s, threw, val, ev) ==
    [op |-> name, dst |-> c, src |-> s, threw |-> threw, val |-> val, ev |-> ev]

\* No result is held by the caller.
NoRet ==
    [kind |-> "none", b |-> FALSE, val |-> NoVal, ref |-> "none", ended |-> FALSE]

\* A bool returned by value.
RetBool(b) ==
    [kind |-> "bool", b |-> b, val |-> NoVal, ref |-> "none", ended |-> FALSE]

\* A T* returned: "null", or the address of the storage of container p.
RetPtr(p) ==
    [kind |-> "ptr", b |-> FALSE, val |-> NoVal, ref |-> p, ended |-> FALSE]

\* A T& returned: it refers to the storage of a container, to an outside
\* object (Ext) or to a temporary ("temp"); v is the value read through it.
RetRef(p, v) ==
    [kind |-> "ref", b |-> FALSE, val |-> v, ref |-> p, ended |-> FALSE]

\* KEEL_ASSERT failed: the call did not return.
RetAssert ==
    [kind |-> "assert", b |-> FALSE, val |-> NoVal, ref |-> "none", ended |-> FALSE]

\* lastOp when no member function call is on record.
Idle == Op("none", "a", "none", FALSE, NoVal, <<>>)

TypeOK ==
    /\ \A c \in Slots :
          /\ obj[c].status \in {"none", "alive", "destroyed"}
          /\ obj[c].m_HasValue \in BOOLEAN
          /\ obj[c].m_Value \in Values \cup {NoVal}
          /\ obj[c].live \in 0..2
          /\ obj[c].badDtor \in BOOLEAN
    /\ ctorFailed \in BOOLEAN
    /\ \A c \in Slots : orig[c] \in Values \cup {NoVal}
    /\ ret.kind \in {"none", "bool", "ptr", "ref", "assert"}
    /\ ret.b \in BOOLEAN
    /\ ret.val \in Values \cup {NoVal}
    /\ ret.ref \in Slots \cup {"none", "null", "temp", Ext}
    /\ ret.ended \in BOOLEAN

Init ==
    /\ obj = [c \in Slots |-> Strip(Raw)]
    /\ lastOp = Op("none", "a", "none", FALSE, NoVal, <<>>)
    /\ ctorFailed = FALSE
    /\ orig = [c \in Slots |-> NoVal]
    /\ ret = NoRet


\* Store the working record of c.
Put(c, r) == [obj EXCEPT ![c] = Strip(r)]

\* Store the working record of c; the payload of s (if s is a container) has
\* been moved from.
PutMoved(c, r, s, h) ==
    [k \in Slots |-> IF k = c THEN Strip(r)
                     ELSE IF k = s THEN MovedFrom(obj[k], h)
                     ELSE obj[k]]

\* Containers in S have been operated on: they no longer count as holding
\* the payload of their copy-construction untouched.
Touch(S) == [k \in Slots |-> IF k \in S THEN NoVal ELSE orig[k]]

Born(c) == [Work(c) EXCEPT !.status = "alive"]

\* Optional() noexcept : m_HasValue(false)
Optional_Default(c) ==
    /\ obj[c].status = "none"
    /\ LET r == SetHasValue(Born(c), FALSE) IN
          /\ obj' = Put(c, r)
          /\ lastOp' = Op("Optional()", c, "none", FALSE, NoVal, r.ev)
    /\ orig' = Touch({c})
    /\ UNCHANGED ctorFailed

\* Optional(const T& Value) that constructs the payload and forgets the flag.
Optional_CopyValue_NoFlag(c, s, x, fail, g) ==
    /\ obj[c].status = "none"
    /\ IsSource(s)
    /\ LET v  == SourceValue(s, x, g)
           r1 == PlacementNew(Born(c), v, fail)
       IN
          /\ obj' = IF fail THEN obj ELSE Put(c, r1)
          /\ lastOp' = Op("Optional(const T&)", c, s, fail, v, r1.ev)
    /\ ctorFailed' = (ctorFailed \/ fail)
    /\ orig' = Touch({c})

\* Optional(const T& Value): construct the payload, then set the flag.  If
\* T's copy constructor throws, no container comes into existence.
Optional_CopyValue(c, s, x, fail, g) ==
    /\ obj[c].status = "none"
    /\ IsSource(s)
    /\ LET v  == SourceValue(s, x, g)
           r1 == PlacementNew(Born(c), v, fail)
           r2 == IF fail THEN r1 ELSE SetHasValue(r1, TRUE)
       IN
          /\ obj' = IF fail THEN obj ELSE Put(c, r2)
          /\ lastOp' = Op("Optional(const T&)", c, s, fail, v, r2.ev)
    /\ ctorFailed' = (ctorFailed \/ fail)
    /\ orig' = Touch({c})

\* Optional(T&& Value): as above, moving from Value.
Optional_MoveValue(c, s, x, fail, g, h) ==
    /\ obj[c].status = "none"
    /\ IsSource(s)
    /\ LET v  == SourceValue(s, x, g)
           r1 == PlacementNew(Born(c), v, fail)
           r2 == IF fail THEN r1 ELSE SetHasValue(r1, TRUE)
       IN
          /\ obj' = PutMoved(c, IF fail THEN Raw ELSE r2, s, h)
          /\ lastOp' = Op("Optional(T&&)", c, s, fail, v, r2.ev)
    /\ ctorFailed' = (ctorFailed \/ fail)
    /\ orig' = Touch({c, s})

\* A copy constructor that moves the payload out of Value instead of copying
\* it, leaving the source payload value-initialized.
Optional_Copy_Steals(c, s, fail, g) ==
    /\ obj[c].status = "none"
    /\ s \in Slots /\ s # c /\ Alive(s)
    /\ LET has   == obj[s].m_HasValue
           v     == IF has THEN ValueGet(obj[s], g) ELSE NoVal
           threw == fail /\ has
           r1    == SetHasValue(Born(c), has)
           r2    == IF has THEN PlacementNew(r1, v, fail) ELSE r1
       IN
          /\ obj' = PutMoved(c, IF threw THEN Raw ELSE r2, s, DefaultT)
          /\ lastOp' = Op("Optional(const Optional&)", c, s, threw, v, r2.ev)
          /\ ctorFailed' = (ctorFailed \/ threw)
          /\ orig' = IF ~threw /\ has /\ obj[s].live = 1
                     THEN [k \in Slots |-> IF k \in {c, s} THEN v ELSE orig[k]]
                     ELSE Touch({c})

\* Optional(const Optional& Value) : m_HasValue(Value.m_HasValue)
\*   { if (Value.m_HasValue) new(&m_Value.Get()) T(Value.m_Value.Get()); }
Optional_Copy(c, s, fail, g) ==
    /\ obj[c].status = "none"
    /\ s \in Slots /\ s # c /\ Alive(s)
    /\ LET has   == obj[s].m_HasValue
           v     == IF has THEN ValueGet(obj[s], g) ELSE NoVal
           threw == fail /\ has
           r1    == SetHasValue(Born(c), has)
           r2    == IF has THEN PlacementNew(r1, v, fail) ELSE r1
       IN
          /\ obj' = IF threw THEN obj ELSE Put(c, r2)
          /\ lastOp' = Op("Optional(const Optional&)", c, s, threw, v, r2.ev)
          /\ ctorFailed' = (ctorFailed \/ threw)
          /\ orig' = IF ~threw /\ has /\ obj[s].live = 1
                     THEN [k \in Slots |-> IF k \in {c, s} THEN v ELSE orig[k]]
                     ELSE Touch({c})

\* Optional(Optional&& Value) : m_HasValue(Value.m_HasValue)
\*   { if (Value.m_HasValue) new(&m_Value.Get()) T(Move(Value.m_Value.Get())); }
Optional_Move(c, s, fail, g, h) ==
    /\ obj[c].status = "none"
    /\ s \in Slots /\ s # c /\ Alive(s)
    /\ LET has   == obj[s].m_HasValue
           v     == IF has THEN ValueGet(obj[s], g) ELSE NoVal
           threw == fail /\ has
           r1    == SetHasValue(Born(c), has)
           r2    == IF has THEN PlacementNew(r1, v, fail) ELSE r1
       IN
          /\ obj' = IF has THEN PutMoved(c, IF threw THEN Raw ELSE r2, s, h)
                    ELSE Put(c, r2)
          /\ lastOp' = Op("Optional(Optional&&)", c, s, threw, v, r2.ev)
          /\ ctorFailed' = (ctorFailed \/ threw)
          /\ orig' = Touch({c, s})

\* Optional& operator=(const Optional& Value)
\*   if (&Value != this) { Reset(); m_HasValue = Value.m_HasValue;
\*       if (Value.m_HasValue) new(&m_Value.Get()) T(Value.m_Value.Get()); }
Assign_Copy(c, s, fail, g) ==
    /\ Alive(c)
    /\ s \in Slots /\ Alive(s)
    /\ LET has   == obj[s].m_HasValue
           v     == IF has THEN ValueGet(obj[s], g) ELSE NoVal
           self  == SameObject(c, s)
           threw == fail /\ has /\ ~self
           r1    == Reset(Work(c))
           r2    == SetHasValue(r1, has)
           r3    == IF has THEN PlacementNew(r2, v, fail) ELSE r2
           r     == IF self THEN Work(c) ELSE r3
       IN
          /\ obj' = Put(c, r)
          /\ lastOp' = Op("operator=(const Optional&)", c, s, threw, v, r.ev)
          /\ ctorFailed' = (ctorFailed \/ threw)
    /\ orig' = Touch({c})

\* Optional& operator=(Optional&& Value): as above, moving from the payload.
Assign_Move(c, s, fail, g, h) ==
    /\ Alive(c)
    /\ s \in Slots /\ Alive(s)
    /\ LET has   == obj[s].m_HasValue
           v     == IF has THEN ValueGet(obj[s], g) ELSE NoVal
           self  == SameObject(c, s)
           threw == fail /\ has /\ ~self
           r1    == Reset(Work(c))
           r2    == SetHasValue(r1, has)
           r3    == IF has THEN PlacementNew(r2, v, fail) ELSE r2
       IN
          /\ obj' = IF self THEN obj
                    ELSE IF has THEN PutMoved(c, r3, s, h)
                    ELSE Put(c, r3)
          /\ lastOp' = Op("operator=(Optional&&)", c, s, threw, v,
                          IF self THEN <<>> ELSE r3.ev)
          /\ ctorFailed' = (ctorFailed \/ threw)
    /\ orig' = Touch({c, s})

\* Optional& operator=(const T& Value)
\*   if (&Value != &m_Value.Get()) { Reset(); new(&m_Value.Get()) T(Value);
\*       m_HasValue = true; }
Assign_CopyValue(c, s, x, fail, g) ==
    /\ Alive(c)
    /\ IsSource(s)
    /\ LET v     == SourceValue(s, x, g)
           self  == SameStorage(c, s)
           threw == fail /\ ~self
           r1    == Reset(Work(c))
           r2    == PlacementNew(r1, v, fail)
           r3    == IF fail THEN r2 ELSE SetHasValue(r2, TRUE)
           r     == IF self THEN Work(c) ELSE r3
       IN
          /\ obj' = Put(c, r)
          /\ lastOp' = Op("operator=(const T&)", c, s, threw, v, r.ev)
          /\ ctorFailed' = (ctorFailed \/ threw)
    /\ orig' = Touch({c})

\* Optional& operator=(T&& Value): as above, moving from Value.
Assign_MoveValue(c, s, x, fail, g, h) ==
    /\ Alive(c)
    /\ IsSource(s)
    /\ LET v     == SourceValue(s, x, g)
           self  == SameStorage(c, s)
           threw == fail /\ ~self
           r1    == Reset(Work(c))
           r2    == PlacementNew(r1, v, fail)
           r3    == IF fail THEN r2 ELSE SetHasValue(r2, TRUE)
       IN
          /\ obj' = IF self THEN obj ELSE PutMoved(c, r3, s, h)
          /\ lastOp' = Op("operator=(T&&)", c, s, threw, v,
                          IF self THEN <<>> ELSE r3.ev)
          /\ ctorFailed' = (ctorFailed \/ threw)
    /\ orig' = Touch({c, s})

\* A call of Reset() by the owner of c.
CallReset(c) ==
    /\ Alive(c)
    /\ LET r == Reset(Work(c)) IN
          /\ obj' = Put(c, r)
          /\ lastOp' = Op("Reset", c, "none", FALSE, NoVal, r.ev)
    /\ orig' = Touch({c})
    /\ UNCHANGED ctorFailed

\* Emplace that sets m_HasValue before it constructs the payload.
Emplace_FlagFirst(c, s, x, fail, g) ==
    /\ Alive(c)
    /\ s = "none" \/ IsSource(s)
    /\ LET want == IF s = "none" THEN DefaultT ELSE SourceValue(s, x, g)
           r1   == Reset(Work(c))
           v    == IF s = c THEN ValueGet(r1, g) ELSE want
           r2   == SetHasValue(r1, TRUE)
           r3   == PlacementNew(r2, v, fail)
       IN
          /\ obj' = Put(c, r3)
          /\ lastOp' = Op("Emplace", c, s, fail, want, r3.ev)
    /\ ctorFailed' = (ctorFailed \/ fail)
    /\ orig' = Touch({c})

\* void Emplace(ArgsT&&... Args)
\*   { Reset(); new(&m_Value.Get()) T(Forward<ArgsT>(Args)...); m_HasValue = true; }
\* The argument list is empty (s = "none"), or one T: an outside object or
\* a reference to the payload of a container, c itself included.  The
\* arguments are read by T's constructor, after Reset() has run.
Emplace(c, s, x, fail, g) ==
    /\ Alive(c)
    /\ s = "none" \/ IsSource(s)
    /\ LET want == IF s = "none" THEN DefaultT ELSE SourceValue(s, x, g)
           r1   == Reset(Work(c))
           v    == IF s = c THEN ValueGet(r1, g) ELSE want
           r2   == PlacementNew(r1, v, fail)
           r3   == IF fail THEN r2 ELSE SetHasValue(r2, TRUE)
       IN
          /\ obj' = Put(c, r3)
          /\ lastOp' = Op("Emplace", c, s, fail, want, r3.ev)
    /\ ctorFailed' = (ctorFailed \/ fail)
    /\ orig' = Touch({c})

\* T& GetValue() (also operator*, operator->) used by the caller to give the
\* payload a new value x: a.GetValue() = x.  The assertion needs HasValue();
\* the write changes the payload living in the storage, if one does.
MutatePayload(c, x) ==
    /\ Alive(c)
    /\ HasValue(c)
    /\ obj' = [obj EXCEPT ![c].m_Value = IF obj[c].live > 0 THEN x ELSE @]
    /\ lastOp' = Op("GetValue()=", c, Ext, FALSE, x, <<>>)
    /\ orig' = Touch({c})
    /\ UNCHANGED ctorFailed

\* ~Optional() noexcept { Reset(); }
Destructor(c) ==
    /\ Alive(c)
    /\ LET r == [Reset(Work(c)) EXCEPT !.status = "destroyed"] IN
          /\ obj' = Put(c, r)
          /\ lastOp' = Op("~Optional", c, "none", FALSE, NoVal, r.ev)
    /\ orig' = Touch({c})
    /\ UNCHANGED ctorFailed

Sources == Slots \cup {Ext}

\* The inputs that matter for a call: the value x of an outside source, the
\* outcome g of reading storage that holds no live payload, the value h a
\* moved-from payload is left with.  Where an input cannot be read it is fixed.
XOf(s) == IF s = Ext THEN Values ELSE {DefaultT}

GOf(c, s) ==
    IF s \in Slots /\ (obj[s].live = 0 \/ s = c) THEN Values ELSE {DefaultT}

HOf(c, s) ==
    IF s \in Slots /\ s # c /\ obj[s].live > 0 THEN Values ELSE {DefaultT}

\* The calls that construct, change or destroy a container.
Mutation ==
    \/ \E c \in Slots : Optional_Default(c)
    \/ \E c \in Slots, s \in Sources, fail \in BOOLEAN :
          \E x \in XOf(s), g \in GOf(c, s) :
             Optional_CopyValue(c, s, x, fail, g)
    \/ \E c \in Slots, s \in Sources, fail \in BOOLEAN :
          \E x \in XOf(s), g \in GOf(c, s), h \in HOf(c, s) :
             Optional_MoveValue(c, s, x, fail, g, h)
    \/ \E c \in Slots, s \in Slots, fail \in BOOLEAN :
          \E g \in GOf(c, s) : Optional_Copy(c, s, fail, g)
    \/ \E c \in Slots, s \in Slots, fail \in BOOLEAN :
          \E g \in GOf(c, s), h \in HOf(c, s) : Optional_Move(c, s, fail, g, h)
    \/ \E c \in Slots, s \in Slots, fail \in BOOLEAN :
          \E g \in GOf(c, s) : Assign_Copy(c, s, fail, g)
    \/ \E c \in Slots, s \in Slots, fail \in BOOLEAN :
          \E g \in GOf(c, s), h \in HOf(c, s) : Assign_Move(c, s, fail, g, h)
    \/ \E c \in Slots, s \in Sources, fail \in BOOLEAN :
          \E x \in XOf(s), g \in GOf(c, s) :
             Assign_CopyValue(c, s, x, fail, g)
    \/ \E c \in Slots, s \in Sources, fail \in BOOLEAN :
          \E x \in XOf(s), g \in GOf(c, s), h \in HOf(c, s) :
             Assign_MoveValue(c, s, x, fail, g, h)
    \/ \E c \in Slots : CallReset(c)
    \/ \E c \in Slots, s \in Sources \cup {"none"}, fail \in BOOLEAN :
          \E x \in XOf(s), g \in GOf(c, s) : Emplace(c, s, x, fail, g)
    \/ \E c \in Slots, x \in Values : MutatePayload(c, x)
    \/ \E c \in Slots : Destructor(c)

\* T's own operator== and operator!= (T is modelled by integers).
TEq(x, y) == x = y

TNe(x, y) == x # y

\* operator== that answers false for two empty containers.
OperatorEq_EmptyUnequal(lhs, rhs, gl, gr) ==
    IF obj[lhs].m_HasValue # obj[rhs].m_HasValue THEN FALSE
    ELSE IF ~obj[lhs].m_HasValue THEN FALSE
    ELSE TEq(ValueGet(obj[lhs], gl), ValueGet(obj[rhs], gr))

\* bool operator==(const Optional<T>& lhs, const Optional<T>& rhs); gl and gr
\* are what reading lhs's and rhs's storage yields when no payload lives there.
OperatorEq(lhs, rhs, gl, gr) ==
    IF obj[lhs].m_HasValue # obj[rhs].m_HasValue THEN FALSE
    ELSE IF ~obj[lhs].m_HasValue THEN TRUE
    ELSE TEq(ValueGet(obj[lhs], gl), ValueGet(obj[rhs], gr))

\* operator!= with the early returns of operator== left in place.
OperatorNe_EarlyReturnsOfEq(lhs, rhs, gl, gr) ==
    IF obj[lhs].m_HasValue # obj[rhs].m_HasValue THEN FALSE
    ELSE IF ~obj[lhs].m_HasValue THEN TRUE
    ELSE TNe(ValueGet(obj[lhs], gl), ValueGet(obj[rhs], gr))

\* bool operator!=(const Optional<T>& lhs, const Optional<T>& rhs)
OperatorNe(lhs, rhs, gl, gr) ==
    IF obj[lhs].m_HasValue # obj[rhs].m_HasValue THEN TRUE
    ELSE IF ~obj[lhs].m_HasValue THEN FALSE
    ELSE TNe(ValueGet(obj[lhs], gl), ValueGet(obj[rhs], gr))

\* A query call on c: nothing but lastOp and the returned result is written.
Query(name, c, s, val, r) ==
    /\ ret = NoRet
    /\ Alive(c)
    /\ lastOp' = Op(name, c, s, FALSE, val, <<>>)
    /\ ret' = r
    /\ UNCHANGED <<obj, ctorFailed, orig>>

\* bool HasValue() const { return m_HasValue; }
Query_HasValue(c) == Query("HasValue", c, "none", NoVal, RetBool(HasValue(c)))

\* explicit operator bool() const { return m_HasValue; }
Query_Bool(c) ==
    Query("operator bool", c, "none", NoVal, RetBool(obj[c].m_HasValue))

\* operator T* () / operator const T* () const
\*   { return HasValue() ? &m_Value.Get() : nullptr; }
Query_Ptr(c) ==
    Query("operator T*", c, "none", NoVal,
          RetPtr(IF HasValue(c) THEN c ELSE "null"))

\* GetValue(): KEEL_ASSERT(HasValue(), ...); return m_Value.Get();
\* KEEL_ASSERT is assert(): with NDEBUG defined (ndebug) it is compiled out
\* and the reference to the storage is returned whatever the flag says.
GetValueResult(c, ndebug, g) ==
    IF ~HasValue(c) /\ ~ndebug THEN RetAssert
    ELSE RetRef(c, ValueGet(obj[c], g))

Query_GetValue(c, ndebug, g) ==
    Query("GetValue", c, "none", NoVal, GetValueResult(c, ndebug, g))

\* operator*() { return GetValue(); }
Query_Deref(c, ndebug, g) ==
    Query("operator*", c, "none", NoVal, GetValueResult(c, ndebug, g))

\* operator->() { return &GetValue(); }
Query_Arrow(c, ndebug, g) ==
    Query("operator->", c, "none", NoVal,
          LET r == GetValueResult(c, ndebug, g) IN
             IF r.kind = "assert" THEN r ELSE RetPtr(r.ref))

\* Get with the branches of the conditional swapped.
Query_Get_Swapped(c, d, dflt, g) ==
    Query("Get", c, dflt, d,
          IF HasValue(c) THEN RetRef(dflt, d) ELSE RetRef(c, ValueGet(obj[c], g)))

\* Get that stores the default in an empty container before returning it.
Query_Get_Inserts(c, d, dflt, g) ==
    /\ ret = NoRet
    /\ Alive(c)
    /\ lastOp' = Op("Get", c, dflt, FALSE, d, <<>>)
    /\ ret' = RetRef(c, IF HasValue(c) THEN ValueGet(obj[c], g) ELSE d)
    /\ obj' = IF HasValue(c) THEN obj
              ELSE Put(c, SetHasValue(PlacementNew(Work(c), d, FALSE), TRUE))
    /\ UNCHANGED <<ctorFailed, orig>>

\* const T& Get(const T& DefaultValue) const
\*   { return HasValue() ? m_Value.Get() : DefaultValue; }
\* DefaultValue is bound to an outside object (dflt = Ext) or to a temporary
\* of the call expression (dflt = "temp") with value d.
Query_Get(c, d, dflt, g) ==
    Query("Get", c, dflt, d,
          IF HasValue(c) THEN RetRef(c, ValueGet(obj[c], g)) ELSE RetRef(dflt, d))

\* lhs == rhs
Query_Eq(lhs, rhs, gl, gr) ==
    /\ Alive(rhs)
    /\ Query("operator==", lhs, rhs, NoVal, RetBool(OperatorEq(lhs, rhs, gl, gr)))

\* lhs != rhs
Query_Ne(lhs, rhs, gl, gr) ==
    /\ Alive(rhs)
    /\ Query("operator!=", lhs, rhs, NoVal, RetBool(OperatorNe(lhs, rhs, gl, gr)))

\* The full expression holding the call ends while the caller keeps the
\* returned reference or pointer: the temporaries of the expression die.
EndFullExpression ==
    /\ ret.kind \in {"ref", "ptr"}
    /\ ~ret.ended
    /\ ret' = [ret EXCEPT !.ended = TRUE]
    /\ UNCHANGED <<obj, lastOp, ctorFailed, orig>>

\* The caller lets go of the result and goes on.
Discard ==
    /\ ret # NoRet
    /\ ret' = NoRet
    /\ lastOp' = Idle
    /\ UNCHANGED <<obj, ctorFailed, orig>>

\* The inputs that matter for a query: the build flavour where the assertion
\* can fail, and what a read of storage without a live payload yields where
\* such a read happens.
Containers == {c \in Slots : Alive(c)}

NdebugOf(c) == IF HasValue(c) THEN {FALSE} ELSE BOOLEAN

GRead(c, reads) ==
    IF reads /\ obj[c].live = 0 THEN Values ELSE {DefaultT}

Next ==
    \/ ret = NoRet /\ Mutation /\ UNCHANGED ret
    \/ \E c \in Containers : Query_HasValue(c)
    \/ \E c \in Containers : Query_Bool(c)
    \/ \E c \in Containers : Query_Ptr(c)
    \/ \E c \in Containers : \E ndebug \in NdebugOf(c) :
          \E g \in GRead(c, HasValue(c) \/ ndebug) : Query_GetValue(c, ndebug, g)
    \/ \E c \in Containers : \E ndebug \in NdebugOf(c) :
          \E g \in GRead(c, HasValue(c) \/ ndebug) : Query_Deref(c, ndebug, g)
    \/ \E c \in Containers : \E ndebug \in NdebugOf(c) :
          \E g \in GRead(c, HasValue(c) \/ ndebug) : Query_Arrow(c, ndebug, g)
    \/ \E c \in Containers, d \in Values, dflt \in {Ext, "temp"} :
          \E g \in GRead(c, HasValue(c)) : Query_Get(c, d, dflt, g)
    \/ \E lhs \in Containers, rhs \in Containers :
          \E gl \in GRead(lhs, HasValue(lhs) /\ HasValue(rhs)),
             gr \in GRead(rhs, HasValue(lhs) /\ HasValue(rhs)) :
                Query_Eq(lhs, rhs, gl, gr)
    \/ \E lhs \in Containers, rhs \in Containers :
          \E gl \in GRead(lhs, HasValue(lhs) /\ HasValue(rhs)),
             gr \in GRead(rhs, HasValue(lhs) /\ HasValue(rhs)) :
                Query_Ne(lhs, rhs, gl, gr)
    \/ EndFullExpression
    \/ Discard

Spec == Init /\ [][Next]_vars


-----------------------------------------------------------------------------
(* Properties *)

AssignOps ==
    {"operator=(const Optional&)", "operator=(Optional&&)",
     "operator=(const T&)", "operator=(T&&)"}

ContainerAssignOps == {"operator=(const Optional&)", "operator=(Optional&&)"}

ValueAssignOps == {"operator=(const T&)", "operator=(T&&)"}

MoveOps == {"Optional(Optional&&)", "operator=(Optional&&)"}

\* How often event e occurs in the event log q.
Count(q, e) == Cardinality({i \in 1..Len(q) : q[i] = e})

\* C1: as long as no payload constructor has failed, between operations the
\* presence flag of every container is true exactly when its storage holds
\* exactly one live payload and false exactly when it holds none.
C1_FlagIffOneLivePayload ==
    ~ctorFailed =>
        \A c \in Slots :
            Alive(c) =>
                /\ HasValue(c) <=> obj[c].live = 1
                /\ ~HasValue(c) <=> obj[c].live = 0

\* C1 witness: after constructions, an assignment and a Reset without any
\* failure, one container is present and the other one is empty.
C1_Witness ==
    /\ ~ctorFailed
    /\ Alive("a") /\ Alive("b")
    /\ HasValue("a") /\ obj["a"].live = 1
    /\ ~HasValue("b") /\ obj["b"].live = 0
    /\ lastOp.op = "Reset" /\ lastOp.dst = "b" /\ Count(lastOp.ev, "dtor") = 1

\* C2 (as claimed): after an assignment in which T's constructor threw, the
\* target is not flagged present without a live payload, does not hold two
\* live payloads, and no destructor ever runs on a payload that is not live.
C2_FailedAssignLeavesValidState ==
    /\ (lastOp.op \in AssignOps /\ lastOp.threw) =>
          /\ HasValue(lastOp.dst) => obj[lastOp.dst].live = 1
          /\ obj[lastOp.dst].live <= 1
    /\ \A c \in Slots : ~obj[c].badDtor

\* C3: an assignment whose source is the target itself (the same container,
\* or the T in the target's own storage) changes no container, and runs no
\* payload constructor, no payload destructor and no flag write.
C3_SelfAssignIsNoOp ==
    [][(lastOp'.op \in AssignOps /\ lastOp'.src = lastOp'.dst) =>
          /\ obj' = obj
          /\ lastOp'.ev = <<>>
          /\ ~lastOp'.threw]_vars

\* C3 witness: a present container has just been assigned to itself.
C3_Witness ==
    /\ lastOp.op \in AssignOps /\ lastOp.src = lastOp.dst
    /\ HasValue(lastOp.dst) /\ obj[lastOp.dst].live = 1
    /\ GetValue(lastOp.dst) = 7

\* C4: after an assignment from a different source whose payload constructor
\* succeeded: for a container source, the target is present iff the source is
\* and, when present, holds the value the source's payload had before the
\* call; for a T source, the target is present with the assigned value; in
\* both cases no earlier payload is left alive in the target's storage.
C4_AssignTakesSource ==
    (lastOp.op \in AssignOps /\ lastOp.src # lastOp.dst /\ ~lastOp.threw) =>
        LET c == lastOp.dst
            s == lastOp.src
        IN  /\ lastOp.op \in ContainerAssignOps =>
                  /\ HasValue(c) = HasValue(s)
                  /\ HasValue(c) => GetValue(c) = lastOp.val
            /\ lastOp.op \in ValueAssignOps =>
                  /\ HasValue(c)
                  /\ GetValue(c) = lastOp.val
            /\ obj[c].live = IF HasValue(c) THEN 1 ELSE 0

\* C4 witness: a present container holding 42 has been copy-assigned from a
\* present container holding 7.
C4_Witness ==
    /\ lastOp.op = "operator=(const Optional&)"
    /\ lastOp.dst = "b" /\ lastOp.src = "a" /\ ~lastOp.threw
    /\ lastOp.ev = <<"dtor", "flag:=false", "flag:=true", "ctor">>
    /\ GetValue("a") = 7 /\ GetValue("b") = 7

\* C5 (as claimed): after every Emplace(args...) whose payload constructor
\* succeeded the container is present, GetValue() is T(args...) and so is
\* Get(d) for every default d; an empty container answers Get(42) with 42.
C5_EmplaceHoldsArgs ==
    /\ (lastOp.op = "Emplace" /\ ~lastOp.threw) =>
          /\ HasValue(lastOp.dst)
          /\ GetValue(lastOp.dst) = lastOp.val
          /\ \A d \in Values : Get(lastOp.dst, d) = lastOp.val
    /\ \A c \in Slots : (Alive(c) /\ ~HasValue(c)) => Get(c, 42) = 42

\* C6: when T's constructor throws inside Emplace, the failure reaches the
\* caller right after the throw (no flag write follows it) and the container
\* is empty: flag false, no live payload, the old value gone.
C6_FailedEmplaceLeavesEmpty ==
    (lastOp.op = "Emplace" /\ lastOp.threw) =>
        /\ lastOp.ev[Len(lastOp.ev)] = "throw"
        /\ ~HasValue(lastOp.dst)
        /\ obj[lastOp.dst].live = 0
        /\ obj[lastOp.dst].m_Value = NoVal

\* C6 witness: Emplace on a present container destroyed the payload and
\* then T's constructor threw.
C6_Witness ==
    /\ lastOp.op = "Emplace" /\ lastOp.threw
    /\ lastOp.ev = <<"dtor", "flag:=false", "throw">>
    /\ Alive(lastOp.dst) /\ ~HasValue(lastOp.dst)

\* C7: after Reset() the container reports HasValue() false; Reset() on a
\* present container runs the payload destructor exactly once, and Reset()
\* on an empty container changes nothing and runs no destructor.
C7_ResetIdempotent ==
    [][lastOp'.op = "Reset" =>
          LET c == lastOp'.dst IN
             /\ ~obj'[c].m_HasValue
             /\ obj[c].m_HasValue => Count(lastOp'.ev, "dtor") = 1
             /\ ~obj[c].m_HasValue => (obj' = obj /\ lastOp'.ev = <<>>)]_vars

\* C7 witness: Reset() has run on a container that was already empty (its
\* payload, constructed once, was destroyed once by an earlier Reset()).
C7_Witness ==
    /\ lastOp.op = "Reset" /\ lastOp.ev = <<>>
    /\ Alive(lastOp.dst) /\ ~HasValue(lastOp.dst)
    /\ obj[lastOp.dst].live = 0 /\ ~obj[lastOp.dst].badDtor

\* C8: once a copy-construction from a present container has paired two
\* containers, each of them keeps its presence flag and payload value for as
\* long as every later operation is applied to the other one only.
C8_CopyIndependence ==
    \A c \in Slots :
        orig[c] # NoVal =>
            /\ Alive(c)
            /\ HasValue(c)
            /\ obj[c].live = 1
            /\ GetValue(c) = orig[c]

\* C8 witness: b still holds the 7 of its copy-construction after the other
\* container has been Reset.
C8_Witness ==
    /\ orig["b"] = 7 /\ HasValue("b") /\ GetValue("b") = 7
    /\ lastOp.op = "Reset" /\ lastOp.dst = "a" /\ lastOp.ev # <<>>
    /\ Alive("a") /\ ~HasValue("a")

\* C9: move-construction and move-assignment from another container leave
\* the source's presence flag and the liveness of its payload as they were,
\* and, when T's move constructor succeeds, make the destination present iff
\* the source is present.
C9_MoveKeepsSourceFlag ==
    [][(lastOp'.op \in MoveOps /\ lastOp'.src # lastOp'.dst) =>
          LET c == lastOp'.dst
              s == lastOp'.src
          IN /\ obj'[s].status = "alive"
             /\ obj'[s].m_HasValue = obj[s].m_HasValue
             /\ obj'[s].live = obj[s].live
             /\ ~lastOp'.threw =>
                   /\ obj'[c].status = "alive"
                   /\ obj'[c].m_HasValue = obj[s].m_HasValue
                   /\ obj'[c].live = IF obj[s].m_HasValue THEN 1 ELSE 0]_vars

\* C9 witness: b has been move-assigned from the present container a, and
\* both are present with a live payload.
C9_Witness ==
    /\ lastOp.op = "operator=(Optional&&)" /\ ~lastOp.threw
    /\ lastOp.dst = "b" /\ lastOp.src = "a"
    /\ HasValue("a") /\ obj["a"].live = 1
    /\ HasValue("b") /\ obj["b"].live = 1 /\ GetValue("b") = lastOp.val

\* C10 (as claimed): a destroyed container has no live payload left in its
\* storage, and no destructor ever ran there on a payload that was not live.
C10_DestroyedExactlyOnce ==
    \A c \in Slots :
        obj[c].status = "destroyed" =>
            /\ obj[c].live = 0
            /\ ~obj[c].badDtor

\* What a read of c's storage can yield: the payload's value, or any value
\* when no payload lives there.
Reads(c) == IF obj[c].live > 0 THEN {obj[c].m_Value} ELSE Values

AccessOps == {"GetValue", "operator*", "operator->"}

QueryOps ==
    {"HasValue", "operator bool", "operator T*", "GetValue", "operator*",
     "operator->", "Get", "operator==", "operator!="}

C13_GetReturnsPayloadOrDefault ==
    lastOp.op = "Get" =>
        /\ ret.kind = "ref"
        /\ HasValue(lastOp.dst) =>
              /\ ret.ref = lastOp.dst
              /\ ret.val \in Reads(lastOp.dst)
        /\ ~HasValue(lastOp.dst) =>
              /\ ret.ref = lastOp.src
              /\ ret.val = lastOp.val

\* C13 witness: Get(7) on a present container whose payload is 7 returned
\* the payload, not the default.
C13_Witness ==
    /\ lastOp.op = "Get" /\ lastOp.val = 7
    /\ HasValue(lastOp.dst) /\ obj[lastOp.dst].live = 1
    /\ GetValue(lastOp.dst) = 7
    /\ ret.ref = lastOp.dst /\ ret.val = 7

\* C14 (as claimed): GetValue(), operator* and operator-> on an empty
\* container end in an assertion failure and return nothing; on a present
\* container they do not assert and return a reference (operator->: the
\* address) of the live payload in the container's storage.
C14_AccessAssertsWhenEmpty ==
    lastOp.op \in AccessOps =>
        /\ ~HasValue(lastOp.dst) => ret.kind = "assert"
        /\ HasValue(lastOp.dst) =>
              /\ ret.kind \in {"ref", "ptr"}
              /\ ret.ref = lastOp.dst
              /\ obj[lastOp.dst].live = 1

\* C15: a container constructed from a value v (copied or moved) reports
\* HasValue() true and GetValue() = v, with one live payload; a default-
\* constructed container reports HasValue() false.
C15_ConstructedFromValue ==
    /\ (lastOp.op \in {"Optional(const T&)", "Optional(T&&)"} /\ ~lastOp.threw) =>
          /\ Alive(lastOp.dst)
          /\ HasValue(lastOp.dst)
          /\ GetValue(lastOp.dst) = lastOp.val
          /\ obj[lastOp.dst].live = 1
    /\ lastOp.op = "Optional()" =>
          /\ Alive(lastOp.dst)
          /\ ~HasValue(lastOp.dst)
          /\ obj[lastOp.dst].live = 0

\* C15 witness: a container has been constructed from the outside value 42.
C15_Witness ==
    /\ lastOp.op = "Optional(const T&)" /\ lastOp.src = Ext /\ ~lastOp.threw
    /\ lastOp.val = 42
    /\ HasValue(lastOp.dst) /\ GetValue(lastOp.dst) = 42

\* C16 (as claimed): the conversion to T* returns null iff the container is
\* empty, and for a present container the address of the live payload in
\* the container's own storage.
C16_PointerNullIffEmpty ==
    lastOp.op = "operator T*" =>
        /\ ret.kind = "ptr"
        /\ ret.ref = "null" <=> ~HasValue(lastOp.dst)
        /\ HasValue(lastOp.dst) =>
              /\ ret.ref = lastOp.dst
              /\ obj[lastOp.dst].live = 1

\* The number of live payloads in the storage after the first i events of
\* the log q, when l0 payloads were live before the call.
RECURSIVE LiveAfter(_, _, _)
LiveAfter(q, l0, i) ==
    IF i = 0 THEN l0
    ELSE LET p == LiveAfter(q, l0, i - 1) IN
            IF q[i] = "ctor" THEN p + 1
            ELSE IF q[i] = "dtor" THEN (IF p > 0 THEN p - 1 ELSE 0)
            ELSE p

\* The presence flag after the first i events of the log q, when it was f0
\* before the call.
RECURSIVE FlagAfter(_, _, _)
FlagAfter(q, f0, i) ==
    IF i = 0 THEN f0
    ELSE IF q[i] = "flag:=true" THEN TRUE
    ELSE IF q[i] = "flag:=false" THEN FALSE
    ELSE FlagAfter(q, f0, i - 1)

\* C17 (as claimed): inside every assignment and Emplace call, a payload is
\* constructed only when none lives in the storage, the flag goes from false
\* to true only in a call that constructs a payload, and from true to false
\* only right after the payload's destruction.
C17_OrderInsideMutators ==
    [][lastOp'.op \in AssignOps \cup {"Emplace"} =>
          LET q  == lastOp'.ev
              l0 == obj[lastOp'.dst].live
              f0 == obj[lastOp'.dst].m_HasValue
          IN \A i \in 1..Len(q) :
                /\ q[i] = "ctor" => LiveAfter(q, l0, i - 1) = 0
                /\ (q[i] = "flag:=true" /\ ~FlagAfter(q, f0, i - 1)) =>
                      Count(q, "ctor") = 1
                /\ (q[i] = "flag:=false" /\ FlagAfter(q, f0, i - 1)) =>
                      (i > 1 /\ q[i - 1] = "dtor")]_vars

\* C18 (as claimed): when the T assigned to a container, or the argument of
\* Emplace, is the container's own payload, the call does not destroy that
\* payload before the new payload has been constructed from it.
C18_SourceNotDestroyedBeforeRead ==
    (lastOp.op \in ValueAssignOps \cup {"Emplace"} /\ lastOp.src = lastOp.dst) =>
        \A i \in 1..Len(lastOp.ev) :
            lastOp.ev[i] \in {"ctor", "throw"} =>
                \A j \in 1..(i - 1) : lastOp.ev[j] # "dtor"

\* C19: a query call (HasValue, operator bool, operator T*, GetValue,
\* operator*, operator->, Get, ==, !=) changes no container; HasValue() and
\* operator bool return the presence flag.
C19_QueriesArePure ==
    [][(lastOp'.op \in QueryOps /\ ret = NoRet) =>
          /\ obj' = obj
          /\ lastOp'.op \in {"HasValue", "operator bool"} =>
                /\ ret'.kind = "bool"
                /\ ret'.b = obj[lastOp'.dst].m_HasValue]_vars

\* C19 witness: operator bool has answered true for a present container
\* holding 42.
C19_Witness ==
    /\ lastOp.op = "operator bool" /\ ret.kind = "bool" /\ ret.b
    /\ HasValue(lastOp.dst) /\ obj[lastOp.dst].live = 1
    /\ GetValue(lastOp.dst) = 42

\* C20 (as claimed): once the call expression has ended, the reference that
\* Get(d) returned does not refer to a temporary of that expression.
C20_GetResultNotDangling ==
    (lastOp.op = "Get" /\ ret.kind = "ref" /\ ret.ended) => ret.ref # "temp"

=============================================================================
